---- MODULE Spec2Model ----
(***************************************************************************)
(* ClawFi SDK: the signal utilities (risk scoring, filters, sort, group)   *)
(* of src/src/index.ts and the HTTP request path of src/src/client.ts.     *)
(*                                                                         *)
(* The risk score is computed by the source in JavaScript numbers, which   *)
(* are IEEE-754 binary64 values.  The model computes it the same way: the  *)
(* operators FAdd, FMul, FDiv round every intermediate result to 53        *)
(* significant bits, ties to even.  Significands do not fit TLC's          *)
(* integers, so they are kept as little-endian sequences of limbs.         *)
(***************************************************************************)
EXTENDS Integers, Sequences, FiniteSets, TLC

(***************************************************************************)
(* Natural numbers of any size: a little-endian sequence of limbs below    *)
(* Base whose last limb is not 0; << >> is zero.                           *)
(***************************************************************************)
Base == 2^15

LimbBits == CHOOSE k \in 1..30 : 2^k = Base

RECURSIVE BigFromInt(_)
BigFromInt(n) ==
    IF n = 0 THEN << >> ELSE <<n % Base>> \o BigFromInt(n \div Base)

RECURSIVE BigToInt(_)
BigToInt(a) ==
    IF a = << >> THEN 0 ELSE Head(a) + Base * BigToInt(Tail(a))

RECURSIVE BigAddC(_, _, _)
BigAddC(a, b, c) ==
    IF a = << >> /\ b = << >>
    THEN (IF c = 0 THEN << >> ELSE <<c>>)
    ELSE LET x == IF a = << >> THEN 0 ELSE Head(a)
             y == IF b = << >> THEN 0 ELSE Head(b)
             s == x + y + c
         IN  <<s % Base>> \o BigAddC(IF a = << >> THEN a ELSE Tail(a),
                                     IF b = << >> THEN b ELSE Tail(b),
                                     s \div Base)

BigAdd(a, b) == BigAddC(a, b, 0)

RECURSIVE BigMulSmallC(_, _, _)
BigMulSmallC(a, x, c) ==
    IF a = << >>
    THEN BigFromInt(c)
    ELSE LET t == Head(a) * x + c
         IN  <<t % Base>> \o BigMulSmallC(Tail(a), x, t \div Base)

BigMulSmall(a, x) == IF x = 0 THEN << >> ELSE BigMulSmallC(a, x, 0)

LimbShift(a) == IF a = << >> THEN a ELSE <<0>> \o a

RECURSIVE BigMul(_, _)
BigMul(a, b) ==
    IF a = << >> \/ b = << >>
    THEN << >>
    ELSE BigAdd(BigMulSmall(a, Head(b)), LimbShift(BigMul(a, Tail(b))))

\* One step of short division: t is the quotient and remainder of the limbs
\* above limb.
DivStep(t, limb, n) ==
    [q |-> IF t.q = << >> /\ (t.r * Base + limb) \div n = 0
           THEN << >>
           ELSE <<(t.r * Base + limb) \div n>> \o t.q,
     r |-> (t.r * Base + limb) % n]

RECURSIVE BigDivMod(_, _)
BigDivMod(a, n) ==
    IF a = << >>
    THEN [q |-> << >>, r |-> 0]
    ELSE DivStep(BigDivMod(Tail(a), n), Head(a), n)

BigShl(a, s) ==
    IF a = << >>
    THEN a
    ELSE [i \in 1..(s \div LimbBits) |-> 0] \o BigMulSmall(a, 2^(s % LimbBits))

BigShr(a, s) ==
    IF s \div LimbBits >= Len(a)
    THEN << >>
    ELSE BigDivMod(SubSeq(a, (s \div LimbBits) + 1, Len(a)),
                   2^(s % LimbBits)).q

RECURSIVE IntBitLen(_)
IntBitLen(n) == IF n = 0 THEN 0 ELSE 1 + IntBitLen(n \div 2)

BigBitLen(a) ==
    IF a = << >> THEN 0 ELSE (Len(a) - 1) * LimbBits + IntBitLen(a[Len(a)])

RECURSIVE BigLess(_, _)
BigLess(a, b) ==
    IF Len(a) # Len(b) THEN Len(a) < Len(b)
    ELSE IF a = << >> THEN FALSE
    ELSE IF a[Len(a)] # b[Len(a)] THEN a[Len(a)] < b[Len(a)]
    ELSE BigLess(SubSeq(a, 1, Len(a) - 1), SubSeq(b, 1, Len(a) - 1))

(***************************************************************************)
(* JavaScript numbers.  A double is 0 or m * 2^e with 2^52 <= m < 2^53,    *)
(* kept as [m, e]; only non-negative finite values occur in the code       *)
(* modelled here.                                                          *)
(***************************************************************************)
Precision == 53

FZero == [m |-> << >>, e |-> 0]

\* A rounded significand that reached 2^53 is halved.
Renormalize(q, e) ==
    IF BigBitLen(q) > Precision
    THEN [m |-> BigShr(q, 1), e |-> e + 1]
    ELSE [m |-> q, e |-> e]

\* q1 holds the bits of N from r - 1 up: the significand and, last, the
\* guard bit.  Round up when the guard bit is set and either a bit below it
\* is (or sticky says so) or the significand is odd.
RoundGuard(N, e, sticky, r, q1) ==
    Renormalize(
        IF /\ q1[1] % 2 = 1
           /\ \/ sticky
              \/ (q1[1] \div 2) % 2 = 1
              \/ BigShl(q1, r - 1) # N
        THEN BigAdd(BigShr(q1, 1), <<1>>)
        ELSE BigShr(q1, 1),
        e + r)

RoundBits(N, e, sticky, L) ==
    IF N = << >> THEN FZero
    ELSE IF L <= Precision
    THEN [m |-> BigShl(N, Precision - L), e |-> e - (Precision - L)]
    ELSE RoundGuard(N, e, sticky, L - Precision,
                    BigShr(N, L - Precision - 1))

\* The double nearest to (N + eps) * 2^e, eps in [0, 1) and nonzero iff
\* sticky; ties go to the even significand.
RoundToDouble(N, e, sticky) == RoundBits(N, e, sticky, BigBitLen(N))

FromInt(k) == RoundToDouble(BigFromInt(k), 0, FALSE)

FAdd(a, b) ==
    IF a.m = << >> THEN b
    ELSE IF b.m = << >> THEN a
    ELSE IF a.e < b.e
    THEN RoundToDouble(BigAdd(a.m, BigShl(b.m, b.e - a.e)), a.e, FALSE)
    ELSE RoundToDouble(BigAdd(BigShl(a.m, a.e - b.e), b.m), b.e, FALSE)

FMul(a, b) ==
    IF a.m = << >> \/ b.m = << >>
    THEN FZero
    ELSE RoundToDouble(BigMul(a.m, b.m), a.e + b.e, FALSE)

RoundQuotient(d, e) == RoundToDouble(d.q, e, d.r # 0)

\* a / n for a double a and an integer 0 < n < Base (n is exact as a double).
FDiv(a, n) ==
    IF a.m = << >>
    THEN FZero
    ELSE RoundQuotient(BigDivMod(BigShl(a.m, 4 * LimbBits), n),
                       a.e - 4 * LimbBits)

FLess(a, b) ==
    IF b.m = << >> THEN FALSE
    ELSE IF a.m = << >> THEN TRUE
    ELSE IF a.e # b.e THEN a.e < b.e
    ELSE BigLess(a.m, b.m)

\* The number a decimal literal num/den of the source denotes.
Literal(num, den) == FDiv(FromInt(num), den)

MathMax(a, b) == IF FLess(a, b) THEN b ELSE a

\* Math.round: the integer floor(a + 1/2), exactly.
MathRound(a) ==
    IF a.m = << >> THEN 0
    ELSE IF a.e >= 0 THEN BigToInt(BigShl(a.m, a.e))
    ELSE BigToInt(BigShr(BigAdd(a.m, BigShl(<<1>>, (0 - a.e) - 1)), 0 - a.e))

MathMin(a, b) == IF a < b THEN a ELSE b

(***************************************************************************)
(* Signal utilities, src/src/index.ts lines 165-303.                       *)
(* A signal is [id, type, severity]; the other fields of the Signal type   *)
(* (title, summary, details, timestamp, metadata) are read by none of the  *)
(* operations modelled.  Signals arrive as parsed JSON, so a type or a     *)
(* severity may be a string outside the declared unions: "other" and       *)
(* "unknown" stand for those.                                              *)
(***************************************************************************)
SignalSeverity == {"info", "low", "medium", "high", "critical"}

SignalType ==
    {"whale_movement", "liquidity_change", "holder_concentration",
     "contract_risk", "price_manipulation", "rugpull_risk", "honeypot",
     "mint_authority", "social_sentiment"}

Severities == SignalSeverity \cup {"unknown"}

Types == SignalType \cup {"other"}

SEVERITY_WEIGHTS ==
    [info |-> 0, low |-> 1, medium |-> 2, high |-> 3, critical |-> 5]

TYPE_RISK_FACTORS ==
    [whale_movement       |-> Literal(12, 10),
     liquidity_change     |-> Literal(15, 10),
     holder_concentration |-> Literal(13, 10),
     contract_risk        |-> Literal(20, 10),
     price_manipulation   |-> Literal(18, 10),
     rugpull_risk         |-> Literal(30, 10),
     honeypot             |-> Literal(30, 10),
     mint_authority       |-> Literal(25, 10),
     social_sentiment     |-> Literal(8, 10)]

\* table[key] || fallback: a missing key gives undefined, and undefined and
\* zero are both falsy.
LookupOr(table, key, zero, fallback) ==
    IF key \in DOMAIN table /\ table[key] # zero THEN table[key] ELSE fallback

\* A weight table that lost its critical entry: critical signals fall back
\* to weight 1.
severityWeightNoCritical(signal) ==
    LookupOr([info |-> 0, low |-> 1, medium |-> 2, high |-> 3],
             signal.severity, 0, 1)

\* SEVERITY_WEIGHTS[signal.severity] || 1
severityWeight(signal) == LookupOr(SEVERITY_WEIGHTS, signal.severity, 0, 1)

One == FromInt(1)

\* TYPE_RISK_FACTORS[signal.type] || 1
typeFactor(signal) == LookupOr(TYPE_RISK_FACTORS, signal.type, FZero, One)

signalScore(signal) == FMul(FromInt(severityWeight(signal)), typeFactor(signal))

\* One iteration of the loop of calculateRiskScore.
ScoreStep(prev, score) ==
    [totalScore |-> FAdd(prev.totalScore, score),
     maxScore   |-> MathMax(prev.maxScore, score)]

\* totalScore and maxScore after the first n iterations.
RECURSIVE ScoreLoop(_, _)
ScoreLoop(sigs, n) ==
    IF n = 0
    THEN [totalScore |-> FZero, maxScore |-> FZero]
    ELSE ScoreStep(ScoreLoop(sigs, n - 1), signalScore(sigs[n]))

AvgShare == Literal(6, 10)

MaxShare == Literal(4, 10)

Ten == FromInt(10)

\* The normalisation without its Math.min(100, ...).
NormalizeNoCap(acc, length) ==
    MathRound(FMul(FAdd(FMul(FDiv(acc.totalScore, length), AvgShare),
                        FMul(acc.maxScore, MaxShare)),
                   Ten))

\* avgScore, combinedScore and the normalisation to 0-100.
Normalize(acc, length) ==
    MathMin(100,
            MathRound(FMul(FAdd(FMul(FDiv(acc.totalScore, length), AvgShare),
                                FMul(acc.maxScore, MaxShare)),
                           Ten)))

calculateRiskScore(sigs) ==
    IF Len(sigs) = 0 THEN 0 ELSE Normalize(ScoreLoop(sigs, Len(sigs)), Len(sigs))

\* s.severity weight as filterBySeverity and sortBySeverity read it:
\* SEVERITY_WEIGHTS[x] with no fallback, undefined for a missing key.
HasWeight(severity) == severity \in DOMAIN SEVERITY_WEIGHTS

\* signals.filter(s => SEVERITY_WEIGHTS[s.severity] >= minWeight): a comparison
\* with undefined on either side is false.
filterBySeverity(sigs, minSeverity) ==
    SelectSeq(sigs, LAMBDA s :
        /\ HasWeight(s.severity)
        /\ HasWeight(minSeverity)
        /\ SEVERITY_WEIGHTS[s.severity] >= SEVERITY_WEIGHTS[minSeverity])

\* signals.filter(s => types.includes(s.type)); types is a sequence.
filterByType(sigs, types) ==
    SelectSeq(sigs, LAMBDA s : \E k \in 1..Len(types) : types[k] = s.type)

\* getCriticalSignals keeping the severity critical alone.
getCriticalOnly(sigs) ==
    SelectSeq(sigs, LAMBDA s : s.severity = "critical")

\* signals.filter(s => s.severity === 'critical' || s.severity === 'high')
getCriticalSignals(sigs) ==
    SelectSeq(sigs, LAMBDA s : s.severity = "critical" \/ s.severity = "high")

\* The comparator of sortBySeverity.  It returns NaN when either weight is
\* undefined, and Array.prototype.sort reads NaN as +0.
compareFn(a, b) ==
    IF HasWeight(a.severity) /\ HasWeight(b.severity)
    THEN SEVERITY_WEIGHTS[b.severity] - SEVERITY_WEIGHTS[a.severity]
    ELSE 0

\* ECMAScript's "consistent comparator": with NaN read as 0 the relation
\* compareFn(a, b) = 0 must be transitive over the elements sorted.
ConsistentComparator(sigs) ==
    \A i, j, k \in 1..Len(sigs) :
        (compareFn(sigs[i], sigs[j]) = 0 /\ compareFn(sigs[j], sigs[k]) = 0)
            => compareFn(sigs[i], sigs[k]) = 0

\* x placed behind every element it does not sort before.
RECURSIVE InsertSorted(_, _)
InsertSorted(sorted, x) ==
    IF sorted = << >> THEN <<x>>
    ELSE IF compareFn(sorted[Len(sorted)], x) <= 0
         THEN Append(sorted, x)
         ELSE Append(InsertSorted(SubSeq(sorted, 1, Len(sorted) - 1), x),
                     sorted[Len(sorted)])

RECURSIVE StableSort(_, _)
StableSort(sigs, n) ==
    IF n = 0 THEN << >> ELSE InsertSorted(StableSort(sigs, n - 1), sigs[n])

Orderings(sigs) ==
    {[i \in 1..Len(sigs) |-> sigs[p[i]]] :
        p \in {q \in [1..Len(sigs) -> 1..Len(sigs)] :
                  \A i, j \in 1..Len(sigs) : q[i] = q[j] => i = j}}

\* What [...signals].sort(compareFn) may return.  Array.prototype.sort is a
\* stable sort for a consistent comparator; otherwise the order of the result
\* is implementation-defined.
sortBySeverity(sigs) ==
    IF ConsistentComparator(sigs)
    THEN {StableSort(sigs, Len(sigs))}
    ELSE Orderings(sigs)

\* The reduce of groupByType over the first n signals.
RECURSIVE GroupLoop(_, _)
GroupLoop(sigs, n) ==
    IF n = 0
    THEN << >>
    ELSE LET acc    == GroupLoop(sigs, n - 1)
             signal == sigs[n]
             made   == IF signal.type \in DOMAIN acc
                       THEN acc
                       ELSE acc @@ (signal.type :> << >>)
         IN  [made EXCEPT ![signal.type] = Append(@, signal)]

groupByType(sigs) == GroupLoop(sigs, Len(sigs))

\* isHighRisk deciding on the score alone.
isHighRiskScoreOnly(sigs) == calculateRiskScore(sigs) >= 70

isHighRisk(sigs) ==
    LET riskScore == calculateRiskScore(sigs)
    IN  \/ riskScore >= 70
        \/ \E i \in 1..Len(sigs) :
              \/ sigs[i].type = "honeypot"
              \/ sigs[i].type = "rugpull_risk"
              \/ sigs[i].severity = "critical"

\* getRiskLevel with the thresholds read as inclusive upper limits.
getRiskLevelInclusive(score) ==
    IF score <= 20 THEN "safe"
    ELSE IF score <= 40 THEN "low"
    ELSE IF score <= 60 THEN "medium"
    ELSE IF score <= 80 THEN "high"
    ELSE "critical"

getRiskLevel(score) ==
    IF score < 20 THEN "safe"
    ELSE IF score < 40 THEN "low"
    ELSE IF score < 60 THEN "medium"
    ELSE IF score < 80 THEN "high"
    ELSE "critical"

(***************************************************************************)
(* The state: callers share one signal collection and call the utilities   *)
(* on it.  heap maps the address of each live array to its elements: Input *)
(* is the shared collection, Result the array the last call returned, and  *)
(* groupByType returns one array per key, kept under the key.  ret is what *)
(* the last call returned (a number, a boolean, or addresses), original    *)
(* the shared collection as it was constructed.  calls is the state of the *)
(* client's requests; the utilities never touch it.                        *)
(***************************************************************************)
VARIABLES heap, ret, original, calls

vars == <<heap, ret, original, calls>>

Input == "input"

Result == "result"

signals == heap[Input]

MaxLen == 3

Signal(t, s) == [type |-> t, severity |-> s]

\* The signals longer collections are built from.
Pool ==
    {Signal("honeypot", "info"),
     Signal("rugpull_risk", "critical"),
     Signal("contract_risk", "high"),
     Signal("social_sentiment", "low"),
     Signal("contract_risk", "low"),
     Signal("mint_authority", "low"),
     Signal("whale_movement", "medium"),
     Signal("other", "unknown")}

\* Signal.id: here the position at which the signal was received.
WithIds(q) ==
    [i \in 1..Len(q) |->
        [id |-> i, type |-> q[i].type, severity |-> q[i].severity]]

\* Every single signal of every type and severity, and every sequence of at
\* most MaxLen signals of the pool.
Collections ==
    {WithIds(<<Signal(t, s)>>) : t \in Types, s \in Severities}
        \cup {WithIds(q) : q \in UNION {[1..n -> Pool] : n \in 0..MaxLen}}

\* Arguments callers pass to filterByType.
TypeLists ==
    {<< >>, <<"contract_risk">>, <<"honeypot", "rugpull_risk">>,
     <<"other", "mint_authority">>}

(***************************************************************************)
(* The client.  calls[i] is the i-th call of request: pc is the position   *)
(* of the call in the function body, timer the timeout of line 55, aborted *)
(* the state of the call's own AbortController, response and body what     *)
(* the server has delivered, result what the returned promise settled to.  *)
(***************************************************************************)
MaxCalls == 2

CallIds == 1..MaxCalls

NoResponse == [received |-> FALSE]

NoBody == [kind |-> "none"]

NoResult == [pending |-> TRUE]

NewCall ==
    [pc |-> "idle", timer |-> "none", aborted |-> FALSE,
     response |-> NoResponse, body |-> NoBody, thrown |-> "none",
     result |-> NoResult]

NoCalls == [i \in CallIds |-> NewCall]

Init ==
    /\ \E c \in Collections :
          /\ heap = (Input :> c)
          /\ original = c
    /\ ret = [op |-> "none"]
    /\ calls = NoCalls

\* The heap once a call has returned: the arrays earlier calls returned are
\* no longer followed, the arrays in fresh are newly allocated.
Allocate(fresh) == (Input :> heap[Input]) @@ fresh

CallCalculateRiskScore ==
    /\ ret' = [op |-> "calculateRiskScore", val |-> calculateRiskScore(signals)]
    /\ heap' = Allocate(<< >>)
    /\ UNCHANGED <<original, calls>>

CallIsHighRisk ==
    /\ ret' = [op |-> "isHighRisk", val |-> isHighRisk(signals)]
    /\ heap' = Allocate(<< >>)
    /\ UNCHANGED <<original, calls>>

CallFilterBySeverity ==
    \E minSeverity \in SignalSeverity :
        /\ heap' = Allocate(Result :> filterBySeverity(signals, minSeverity))
        /\ ret' = [op |-> "filterBySeverity", arg |-> minSeverity,
                   refs |-> {Result}]
        /\ UNCHANGED <<original, calls>>

CallFilterByType ==
    \E types \in TypeLists :
        /\ heap' = Allocate(Result :> filterByType(signals, types))
        /\ ret' = [op |-> "filterByType", arg |-> types, refs |-> {Result}]
        /\ UNCHANGED <<original, calls>>

CallGetCriticalSignals ==
    /\ heap' = Allocate(Result :> getCriticalSignals(signals))
    /\ ret' = [op |-> "getCriticalSignals", arg |-> << >>, refs |-> {Result}]
    /\ UNCHANGED <<original, calls>>

\* signals.sort(...) without the copy: the shared collection is ordered in
\* place and returned.
CallSortInPlace ==
    \E sorted \in sortBySeverity(signals) :
        /\ heap' = (Input :> sorted)
        /\ ret' = [op |-> "sortBySeverity", arg |-> << >>, refs |-> {Input}]
        /\ UNCHANGED <<original, calls>>

\* [...signals] copies the collection; sort orders the copy in place.
CallSortBySeverity ==
    \E sorted \in sortBySeverity(signals) :
        /\ heap' = Allocate(Result :> sorted)
        /\ ret' = [op |-> "sortBySeverity", arg |-> << >>, refs |-> {Result}]
        /\ UNCHANGED <<original, calls>>

\* The arrays of the object groupByType returns are kept under their keys.
CallGroupByType ==
    /\ heap' = Allocate(groupByType(signals))
    /\ ret' = [op |-> "groupByType", arg |-> << >>,
               refs |-> DOMAIN groupByType(signals)]
    /\ UNCHANGED <<original, calls>>

\* A caller changes an array it was returned (here: pop()).
CallerChangesResult ==
    /\ ret.op \in {"filterBySeverity", "filterByType", "getCriticalSignals",
                   "sortBySeverity", "groupByType"}
    /\ \E a \in ret.refs :
          /\ heap[a] # << >>
          /\ heap' = [heap EXCEPT ![a] = SubSeq(@, 1, Len(@) - 1)]
    /\ ret' = [op |-> "changed", of |-> ret.op]
    /\ UNCHANGED <<original, calls>>

Next ==
    \/ CallCalculateRiskScore
    \/ CallIsHighRisk
    \/ CallFilterBySeverity
    \/ CallFilterByType
    \/ CallGetCriticalSignals
    \/ CallSortBySeverity
    \/ CallGroupByType
    \/ CallerChangesResult

Spec == Init /\ [][Next]_vars

(***************************************************************************)
(* ClawFi.request.  One action per step of the function between two        *)
(* awaits, and one per thing the network or the timer does to a call.      *)
(***************************************************************************)
\* HTTP statuses the server answers with; response.ok is status in 200..299.
Statuses == {200, 404, 500}

Ok(status) == status >= 200 /\ status <= 299

\* Values response.json() resolves to: null, an object without an error
\* field, and objects whose error field is an empty or a non-empty string.
Bodies ==
    {[kind |-> "null"],
     [kind |-> "object"],
     [kind |-> "object", error |-> ""],
     [kind |-> "object", error |-> "Token not found"]}

\* What fetch, response.json() and the property access data.error throw.
\* An AbortError is a DOMException, which older runtimes do not derive
\* from Error.
NetworkErrors == {[isError |-> TRUE, message |-> "fetch failed"]}

AbortErrors ==
    {[isError |-> e, message |-> "This operation was aborted"] : e \in BOOLEAN}

ParseErrors == {[isError |-> TRUE, message |-> "Unexpected token < in JSON"]}

NullAccess ==
    [isError |-> TRUE, message |-> "Cannot read properties of null"]

\* clearTimeout(timeout): cancels a pending timer, no effect otherwise.
clearTimeout(timer) == IF timer = "armed" THEN "cleared" ELSE timer

\* The catch block missing: the error leaves request and the promise
\* rejects.
Uncaught(call, cause, error) ==
    [call EXCEPT !.pc = "done",
                 !.timer = clearTimeout(@),
                 !.thrown = cause,
                 !.result = [rejected |-> error.message]]

\* The catch block, lines 81-88.
Caught(call, cause, error) ==
    [call EXCEPT !.pc = "done",
                 !.timer = clearTimeout(@),
                 !.thrown = cause,
                 !.result =
                     [success |-> FALSE,
                      error |-> IF error.isError THEN error.message
                                ELSE "Unknown error"]]

\* data.error || `HTTP ${response.status}`
ErrorOf(data, status) ==
    IF "error" \in DOMAIN data /\ data.error # ""
    THEN data.error
    ELSE "HTTP " \o ToString(status)

\* Lines 43-62: the controller and the timer are created, fetch is started.
Request(i) ==
    /\ calls[i].pc = "idle"
    /\ calls' = [calls EXCEPT ![i].pc = "fetching", ![i].timer = "armed"]
    /\ UNCHANGED <<heap, ret, original>>

\* The timer of line 55 expires: controller.abort().
TimerFires(i) ==
    /\ calls[i].timer = "armed"
    /\ calls' = [calls EXCEPT ![i].timer = "fired", ![i].aborted = TRUE]
    /\ UNCHANGED <<heap, ret, original>>

\* fetch rejects because its signal was aborted.
FetchAborted(i) ==
    /\ calls[i].pc = "fetching"
    /\ calls[i].aborted
    /\ \E error \in AbortErrors :
          calls' = [calls EXCEPT ![i] = Caught(@, "abort", error)]
    /\ UNCHANGED <<heap, ret, original>>

\* fetch rejects with a network error.
FetchFails(i) ==
    /\ calls[i].pc = "fetching"
    /\ \E error \in NetworkErrors :
          calls' = [calls EXCEPT ![i] = Caught(@, "network", error)]
    /\ UNCHANGED <<heap, ret, original>>

\* The response headers arrive: fetch resolves, line 64 clears the timer
\* and line 66 starts reading the body.
FetchResolves(i) ==
    /\ calls[i].pc = "fetching"
    /\ ~calls[i].aborted
    /\ \E status \in Statuses :
          calls' = [calls EXCEPT
                       ![i].pc = "reading",
                       ![i].timer = clearTimeout(@),
                       ![i].response = [received |-> TRUE, status |-> status,
                                        ok |-> Ok(status)]]
    /\ UNCHANGED <<heap, ret, original>>

\* Lines 68-80 once response.json() has resolved to data.
Respond(call, data) ==
    IF ~call.response.ok
    THEN IF data.kind = "null"
         THEN Caught([call EXCEPT !.body = data], "access", NullAccess)
         ELSE [call EXCEPT !.pc = "done",
                           !.body = data,
                           !.result =
                               [success |-> FALSE,
                                error |-> ErrorOf(data, call.response.status)]]
    ELSE [call EXCEPT !.pc = "done",
                      !.body = data,
                      !.result = [success |-> TRUE, data |-> data]]

\* The body arrives and parses.
BodyRead(i) ==
    /\ calls[i].pc = "reading"
    /\ \E data \in Bodies :
          calls' = [calls EXCEPT ![i] = Respond(@, data)]
    /\ UNCHANGED <<heap, ret, original>>

\* response.json() rejects: the body is not JSON, or the connection breaks.
BodyFails(i) ==
    /\ calls[i].pc = "reading"
    /\ \E error \in ParseErrors :
          calls' = [calls EXCEPT ![i] = Caught(@, "parse", error)]
    /\ UNCHANGED <<heap, ret, original>>

ClientInit ==
    /\ calls = NoCalls
    /\ heap = (Input :> << >>)
    /\ original = << >>
    /\ ret = [op |-> "none"]

ClientNext ==
    \E i \in CallIds :
        \/ Request(i)
        \/ TimerFires(i)
        \/ FetchAborted(i)
        \/ FetchFails(i)
        \/ FetchResolves(i)
        \/ BodyRead(i)
        \/ BodyFails(i)

ClientSpec == ClientInit /\ [][ClientNext]_vars

(***************************************************************************)
(* getRiskLevel.  Callers pass it any number: the scores calculateRiskScore *)
(* returns (0..100) and values up to Outside below and above that range.   *)
(***************************************************************************)
Outside == 20

Scores == (0 - Outside)..(100 + Outside)

LevelInit ==
    /\ ret = [op |-> "none"]
    /\ heap = (Input :> << >>)
    /\ original = << >>
    /\ calls = NoCalls

CallGetRiskLevel ==
    /\ \E score \in Scores :
          ret' = [op |-> "getRiskLevel", arg |-> score,
                  val |-> getRiskLevel(score)]
    /\ UNCHANGED <<heap, original, calls>>

LevelNext == CallGetRiskLevel

LevelSpec == LevelInit /\ [][LevelNext]_vars

(***************************************************************************)
(* Claims about the signal utilities, checked under Spec.                  *)
(***************************************************************************)
ArrayOps ==
    {"filterBySeverity", "filterByType", "getCriticalSignals",
     "sortBySeverity", "groupByType"}

\* The weight and factor tables as the specification states them: only an
\* unrecognized key falls back, info weighs 0.
ClaimedWeight(severity) ==
    IF severity \in DOMAIN SEVERITY_WEIGHTS THEN SEVERITY_WEIGHTS[severity] ELSE 1

ClaimedFactor(type) ==
    IF type \in DOMAIN TYPE_RISK_FACTORS THEN TYPE_RISK_FACTORS[type] ELSE One

ClaimedSignalScore(signal) ==
    FMul(FromInt(ClaimedWeight(signal.severity)), ClaimedFactor(signal.type))

\* C1: each signal contributes severityWeight x typeFactor by the stated
\* tables (info weighs 0, only unrecognized keys fall back to 1), so a
\* non-empty collection of info signals scores 0.
C1_SignalScore ==
    ret.op = "calculateRiskScore" =>
        /\ \A i \in 1..Len(signals) :
              signalScore(signals[i]) = ClaimedSignalScore(signals[i])
        /\ (/\ Len(signals) > 0
            /\ \A i \in 1..Len(signals) : signals[i].severity = "info")
               => ret.val = 0

\* The type factors in tenths, and the per-signal scores of the code
\* (weight x factor) in tenths, as exact integers.
FactorTenths ==
    [whale_movement |-> 12, liquidity_change |-> 15,
     holder_concentration |-> 13, contract_risk |-> 20,
     price_manipulation |-> 18, rugpull_risk |-> 30, honeypot |-> 30,
     mint_authority |-> 25, social_sentiment |-> 8]

ScoreTenths(signal) ==
    severityWeight(signal) *
        (IF signal.type \in DOMAIN FactorTenths
         THEN FactorTenths[signal.type] ELSE 10)

RECURSIVE SumTenths(_, _)
SumTenths(sigs, n) ==
    IF n = 0 THEN 0 ELSE SumTenths(sigs, n - 1) + ScoreTenths(sigs[n])

RECURSIVE MaxTenths(_, _)
MaxTenths(sigs, n) ==
    IF n = 0 THEN 0
    ELSE IF ScoreTenths(sigs[n]) > MaxTenths(sigs, n - 1)
         THEN ScoreTenths(sigs[n])
         ELSE MaxTenths(sigs, n - 1)

\* round(min(100, 10 x (0.6 x avg + 0.4 x max))) in exact arithmetic: with T
\* the sum and M the maximum of the scores in tenths and n their number,
\* 10 x (0.6 x avg + 0.4 x max) = (6T + 4Mn) / 10n.
ExactBlend(total, max, n) ==
    MathMin(100, (12 * total + 8 * max * n + 10 * n) \div (20 * n))

ExactScore(sigs) ==
    IF Len(sigs) = 0
    THEN 0
    ELSE ExactBlend(SumTenths(sigs, Len(sigs)), MaxTenths(sigs, Len(sigs)),
                    Len(sigs))

\* C2: the score is 0 for the empty collection and otherwise
\* round(min(100, 10 x (0.6 x avg + 0.4 x max))) of the per-signal scores,
\* whatever the order of the signals.
C2_BlendFormula ==
    ret.op = "calculateRiskScore" =>
        /\ ret.val = ExactScore(signals)
        /\ \A p \in Orderings(signals) : calculateRiskScore(p) = ret.val

IsOverride(signal) ==
    \/ signal.type \in {"honeypot", "rugpull_risk"}
    \/ signal.severity = "critical"

\* C3: isHighRisk is true exactly when the score is at least 70 or some
\* signal is a honeypot, a rugpull_risk or critical; it is false for the
\* empty collection, and true for a single honeypot or rugpull_risk signal
\* of any severity.
C3_IsHighRisk ==
    ret.op = "isHighRisk" =>
        /\ ret.val <=> \/ calculateRiskScore(signals) >= 70
                       \/ \E i \in 1..Len(signals) : IsOverride(signals[i])
        /\ Len(signals) = 0 => ret.val = FALSE
        /\ (/\ Len(signals) = 1
            /\ signals[1].type \in {"honeypot", "rugpull_risk"})
               => ret.val = TRUE

\* A single honeypot signal of severity info: high risk on a score below 70.
C3_Witness ==
    /\ ret.op = "isHighRisk"
    /\ Len(signals) = 1
    /\ signals[1].type = "honeypot"
    /\ signals[1].severity = "info"
    /\ ret.val = TRUE
    /\ calculateRiskScore(signals) < 70

\* C4: the score is an integer from 0 to 100, and it is 100 whenever ten
\* times the blend exceeds 100, as for a single critical rugpull_risk signal.
C4_Range ==
    ret.op = "calculateRiskScore" =>
        /\ ret.val \in 0..100
        /\ (/\ Len(signals) > 0
            /\ 6 * SumTenths(signals, Len(signals))
                 + 4 * MaxTenths(signals, Len(signals)) * Len(signals)
                   > 1000 * Len(signals))
               => ret.val = 100

\* A single critical rugpull_risk signal (raw 150) scored 100.
C4_Witness ==
    /\ ret.op = "calculateRiskScore"
    /\ Len(signals) = 1
    /\ signals[1].type = "rugpull_risk"
    /\ signals[1].severity = "critical"
    /\ ret.val = 100

InsertAt(sigs, pos, signal) ==
    SubSeq(sigs, 1, pos - 1) \o <<signal>> \o SubSeq(sigs, pos, Len(sigs))

CriticalRugpull ==
    [id |-> 0, type |-> "rugpull_risk", severity |-> "critical"]

\* C5: one more critical rugpull_risk signal, at any position, never lowers
\* the score the collection was given, and the longer collection is high
\* risk.
C5_Monotonic ==
    ret.op = "calculateRiskScore" =>
        \A pos \in 1..(Len(signals) + 1) :
            /\ calculateRiskScore(InsertAt(signals, pos, CriticalRugpull))
                  >= ret.val
            /\ isHighRisk(InsertAt(signals, pos, CriticalRugpull))

\* A scored collection of MaxLen signals that the added signal raises.
C5_Witness ==
    /\ ret.op = "calculateRiskScore"
    /\ Len(signals) = MaxLen
    /\ ret.val > 0
    /\ calculateRiskScore(InsertAt(signals, 2, CriticalRugpull)) > ret.val

Count(seq, x) == Cardinality({i \in 1..Len(seq) : seq[i] = x})

IsPermutation(out, in) ==
    /\ Len(out) = Len(in)
    /\ \A i \in 1..Len(in) : Count(out, in[i]) = Count(in, in[i])

\* The position of the signal with this id.
IndexOf(seq, id) == CHOOSE i \in 1..Len(seq) : seq[i].id = id

\* C8: sortBySeverity returns a permutation of its input in non-increasing
\* order of severity weight (critical 5, high 3, medium 2, low 1, info 0, and
\* 1 for an unrecognized severity, as the weight table has it), signals of
\* equal weight in their input order.
C8_StableSort ==
    ret.op = "sortBySeverity" =>
        /\ IsPermutation(heap[Result], signals)
        /\ \A i, j \in 1..Len(heap[Result]) :
              i < j => ClaimedWeight(heap[Result][i].severity)
                          >= ClaimedWeight(heap[Result][j].severity)
        /\ \A i, j \in 1..Len(signals) :
              (/\ i < j
               /\ ClaimedWeight(signals[i].severity)
                     = ClaimedWeight(signals[j].severity)
               /\ IsPermutation(heap[Result], signals))
                  => IndexOf(heap[Result], signals[i].id)
                        < IndexOf(heap[Result], signals[j].id)

\* What does hold of the code: C8 for the collections whose severities are
\* all among the five of SignalSeverity.
SortsDeclaredSeverities ==
    (/\ ret.op = "sortBySeverity"
     /\ \A i \in 1..Len(signals) : HasWeight(signals[i].severity))
        => C8_StableSort

\* C9: filterBySeverity returns, in input order, exactly the signals whose
\* weight (info 0, low 1, medium 2, high 3, critical 5, unrecognized 1) is
\* at least the weight of minSeverity.
C9_FilterBySeverity ==
    ret.op = "filterBySeverity" =>
        heap[Result] =
            SelectSeq(signals, LAMBDA s :
                ClaimedWeight(s.severity) >= ClaimedWeight(ret.arg))

\* C10: no operation changes the shared collection, and every collection
\* returned is a new array, so what a caller does to it stays with it.
C10_InputUnchanged ==
    /\ heap[Input] = original
    /\ ret.op \in ArrayOps => Input \notin ret.refs

\* A caller changed the array sortBySeverity returned for a collection the
\* sort reorders.
C10_Witness ==
    /\ ret.op = "changed"
    /\ ret.of = "sortBySeverity"
    /\ Len(signals) = MaxLen
    /\ signals[1].severity = "info"
    /\ signals[2].severity = "critical"
    /\ Len(heap[Result]) = MaxLen - 1
    /\ heap[Result][1].severity = "critical"

(***************************************************************************)
(* Claims about the client, checked under ClientSpec.  The results are     *)
(* modelled without their timestamp field (Date.now()).                    *)
(***************************************************************************)
Failed(call) ==
    /\ DOMAIN call.result = {"success", "error"}
    /\ call.result.success = FALSE
    /\ call.result.error # ""

Succeeded(call) ==
    /\ DOMAIN call.result = {"success", "data"}
    /\ call.result.success = TRUE

NonSuccessStatus(call) == call.response.received /\ ~call.response.ok

\* C6: a call of request never throws or rejects and settles to one
\* ApiResponse: a call has a result exactly when it has returned; the result
\* is either a failure (success = false, an error message, no data) or a
\* success (success = true, the parsed body as data, no error); it is a
\* failure whenever fetch failed with a network error, the request was
\* aborted by the timeout, or the server answered a non-success status.
\* Whether every call does return is the subject of C7.
C6_RequestOutcome ==
    \A i \in CallIds :
        /\ (calls[i].pc = "done") = (calls[i].result # NoResult)
        /\ calls[i].pc = "done" =>
              /\ Failed(calls[i]) \/ Succeeded(calls[i])
              /\ Succeeded(calls[i]) =>
                    /\ calls[i].body \in Bodies
                    /\ calls[i].result.data = calls[i].body
              /\ (\/ calls[i].thrown \in {"network", "abort"}
                  \/ calls[i].aborted
                  \/ NonSuccessStatus(calls[i])) => Failed(calls[i])

\* Two calls have returned: one aborted by its timeout, one answered with
\* a non-success status whose body carried no error field.
C6_Witness ==
    \E i, j \in CallIds :
        /\ calls[i].pc = "done"
        /\ calls[i].thrown = "abort"
        /\ calls[i].result = [success |-> FALSE, error |-> "Unknown error"]
        /\ calls[j].pc = "done"
        /\ calls[j].result = [success |-> FALSE, error |-> "HTTP 404"]

\* C7: a request that has not completed (response received and body read)
\* is still covered by its timeout: its timer is pending, or it has fired
\* and aborted the request; and the timer of a request that has returned
\* is not pending.
C7_TimeoutCoversRequest ==
    \A i \in CallIds :
        /\ calls[i].pc \in {"fetching", "reading"} =>
              calls[i].timer = "armed" \/ calls[i].aborted
        /\ calls[i].pc = "done" => calls[i].timer # "armed"

\* The parts of C7 that hold: no timer is pending for a request that has
\* returned, and a request is only ever aborted by its own timer.
TimerCancelledOnReturn ==
    \A i \in CallIds : calls[i].pc = "done" => calls[i].timer # "armed"

TimersArePerRequest ==
    [][\A i \in CallIds :
          (calls'[i].aborted /\ ~calls[i].aborted) =>
              (calls[i].timer = "armed" /\ calls'[i].timer = "fired")]_vars

\* While the response is still awaited the timeout does cover the request.
TimeoutCoversFetch ==
    \A i \in CallIds :
        calls[i].pc = "fetching" => calls[i].timer = "armed" \/ calls[i].aborted

(***************************************************************************)
(* Claims about getRiskLevel, checked under LevelSpec.                     *)
(***************************************************************************)
\* The level the thresholds 20, 40, 60, 80 assign, each threshold belonging
\* to the bucket above it.
LevelBuckets ==
    <<[level |-> "safe", from |-> 0 - Outside, to |-> 19],
      [level |-> "low", from |-> 20, to |-> 39],
      [level |-> "medium", from |-> 40, to |-> 59],
      [level |-> "high", from |-> 60, to |-> 79],
      [level |-> "critical", from |-> 80, to |-> 100 + Outside]>>

\* C11: getRiskLevel(score) is safe below 20, low in 20..39, medium in
\* 40..59, high in 60..79 and critical from 80; the boundaries are
\* left-inclusive (19 safe, 20 low, 39 low, 40 medium, 79 high, 80
\* critical); a score outside 0..100 is not rejected: negative is safe,
\* above 100 is critical.
C11_RiskLevel ==
    ret.op = "getRiskLevel" =>
        /\ \A k \in 1..Len(LevelBuckets) :
              (ret.arg >= LevelBuckets[k].from /\ ret.arg <= LevelBuckets[k].to)
                  <=> ret.val = LevelBuckets[k].level
        /\ ret.arg < 0 => ret.val = "safe"
        /\ ret.arg > 100 => ret.val = "critical"
        /\ ret.arg \in {19, 20, 39, 40, 79, 80} =>
              ret.val = [s \in {19, 20, 39, 40, 79, 80} |->
                            CASE s = 19 -> "safe"
                              [] s \in {20, 39} -> "low"
                              [] s = 40 -> "medium"
                              [] s = 79 -> "high"
                              [] s = 80 -> "critical"][ret.arg]

\* getRiskLevel was called with the boundary score 80.
C11_Witness ==
    /\ ret.op = "getRiskLevel"
    /\ ret.arg = 80
    /\ ret.val = "critical"

(***************************************************************************)
(* Claims about getCriticalSignals, checked under Spec.                    *)
(***************************************************************************)
HighOrCritical(signal) == signal.severity \in {"high", "critical"}

\* C12: getCriticalSignals returns exactly the signals of severity high or
\* critical: every signal returned is one of the collection and is high or
\* critical, every high or critical signal of the collection is returned,
\* the signals returned are in their original relative order (ids are the
\* positions in the collection), and no medium, low or info signal is
\* returned.
C12_CriticalSignals ==
    ret.op = "getCriticalSignals" =>
        /\ \A k \in 1..Len(heap[Result]) :
              /\ HighOrCritical(heap[Result][k])
              /\ \E i \in 1..Len(signals) : signals[i] = heap[Result][k]
        /\ \A i \in 1..Len(signals) :
              HighOrCritical(signals[i]) =>
                  \E k \in 1..Len(heap[Result]) : heap[Result][k] = signals[i]
        /\ \A k, l \in 1..Len(heap[Result]) :
              k < l => heap[Result][k].id < heap[Result][l].id
        /\ \A i \in 1..Len(signals) :
              signals[i].severity \in {"medium", "low", "info"} =>
                  \A k \in 1..Len(heap[Result]) : heap[Result][k] # signals[i]

\* A high, a medium and a critical signal: the high and the critical one
\* are returned, in that order.
C12_Witness ==
    /\ ret.op = "getCriticalSignals"
    /\ Len(signals) = 3
    /\ signals[1].severity = "high"
    /\ signals[2].severity = "medium"
    /\ signals[3].severity = "critical"
    /\ heap[Result] = <<signals[1], signals[3]>>

====
